---- MODULE Spec2Model ----
(***************************************************************************)
(* iced-nsview: an Iced application hosted in an NSView (src/src/lib.rs).  *)
(*                                                                         *)
(* The state is the Objective-C runtime's class table, the native view     *)
(* object with its two instance variables, the boxed EventHandler the      *)
(* view's _event_handler slot points to, and the IcedView wrapper that     *)
(* owns both.  Every action is one public operation or one callback the    *)
(* view class registers, taken as a whole: all callbacks run on the UI     *)
(* thread and never interleave.                                            *)
(***************************************************************************)
EXTENDS Integers, Sequences, FiniteSets, TLC

VARIABLES
    class_registered,  \* the Objective-C runtime holds a class named "IcedView"
    process,           \* "running" | "aborted"
    wrapper,           \* the IcedView struct: "none" | "live" | "dropped"
    view,              \* the native view object (IcedView.object)
    handler,           \* the boxed EventHandler
    drag,              \* history of the drag callbacks delivered to the view
    call               \* the most recent operation, its input and how it ended

vars == <<class_registered, process, wrapper, view, handler, drag, call>>

(***************************************************************************)
(* Bounds of the model.                                                    *)
(***************************************************************************)
\* Longest toolkit event queue explored (the Vec behind state.queue_event grows
\* without limit between redraws).
MaxQueue == 2
\* Most characters in the text of one key event.
MaxChars == 2
\* Largest native key code translated (the table's largest is 126).
MaxKeyCode == 127
\* Largest native button index translated.
MaxButton == 258

(***************************************************************************)
(* Small helpers on sequences.                                             *)
(***************************************************************************)
RECURSIVE SeqsUpTo(_, _)
SeqsUpTo(S, n) ==
    IF n = 0 THEN {<<>>}
    ELSE LET shorter == SeqsUpTo(S, n - 1)
         IN  shorter \cup {Append(s, x) : s \in {t \in shorter : Len(t) = n - 1}, x \in S}

RECURSIVE Concat(_)
Concat(ss) == IF ss = <<>> THEN <<>> ELSE Head(ss) \o Concat(Tail(ss))

IsSuffix(t, s) ==
    /\ Len(t) <= Len(s)
    /\ SubSeq(s, Len(s) - Len(t) + 1, Len(s)) = t

(***************************************************************************)
(* Event Translator: native NSEvent -> Vec<Event> (lib.rs 608-853).        *)
(***************************************************************************)
\* u8::MAX + 1: the modulus of the cast "value as u8".
U8Modulus == 256

\* keyboard::KeyCode for a native key code, in the order of the match arms.
NSKeyCodeTable == <<
    <<29, "Key0">>, <<18, "Key1">>, <<19, "Key2">>, <<20, "Key3">>, <<21, "Key4">>,
    <<23, "Key5">>, <<22, "Key6">>, <<26, "Key7">>, <<28, "Key8">>, <<25, "Key9">>,
    <<0, "A">>, <<11, "B">>, <<8, "C">>, <<2, "D">>, <<14, "E">>, <<3, "F">>, <<5, "G">>,
    <<4, "H">>, <<34, "I">>, <<38, "J">>, <<40, "K">>, <<37, "L">>, <<46, "M">>,
    <<45, "N">>, <<31, "O">>, <<35, "P">>, <<12, "Q">>, <<15, "R">>, <<1, "S">>,
    <<17, "T">>, <<32, "U">>, <<9, "V">>, <<13, "W">>, <<7, "X">>, <<16, "Y">>, <<6, "Z">>,
    <<50, "Grave">>, <<27, "Minus">>, <<24, "Equals">>, <<33, "LBracket">>,
    <<30, "RBracket">>, <<41, "Semicolon">>, <<39, "Apostrophe">>, <<43, "Comma">>,
    <<47, "Period">>, <<44, "Slash">>, <<42, "Backslash">>, <<82, "Numpad0">>,
    <<83, "Numpad1">>, <<84, "Numpad2">>, <<85, "Numpad3">>, <<86, "Numpad4">>,
    <<87, "Numpad5">>, <<88, "Numpad6">>, <<89, "Numpad7">>, <<91, "Numpad8">>,
    <<92, "Numpad9">>, <<65, "NumpadComma">>, <<67, "Multiply">>, <<69, "Add">>,
    <<75, "Divide">>, <<78, "Minus">>, <<81, "NumpadEquals">>, <<76, "NumpadEnter">>,
    <<49, "Space">>, <<36, "Enter">>, <<48, "Tab">>, <<51, "Backspace">>,
    <<117, "Delete">>, <<53, "Escape">>, <<55, "LWin">>, <<56, "LShift">>,
    <<57, "Capital">>, <<58, "LAlt">>, <<59, "LControl">>, <<60, "RShift">>,
    <<61, "RAlt">>, <<62, "RControl">>, <<122, "F1">>, <<120, "F2">>, <<99, "F3">>,
    <<118, "F4">>, <<96, "F5">>, <<97, "F6">>, <<98, "F7">>, <<100, "F8">>, <<101, "F9">>,
    <<109, "F10">>, <<103, "F11">>, <<111, "F12">>, <<105, "F13">>, <<107, "F14">>,
    <<113, "F15">>, <<106, "F16">>, <<64, "F17">>, <<79, "F18">>, <<80, "F19">>,
    <<90, "F20">>, <<72, "VolumeUp">>, <<73, "VolumeDown">>, <<74, "Mute">>,
    <<114, "Insert">>, <<115, "Home">>, <<119, "End">>, <<116, "PageUp">>,
    <<121, "PageDown">>, <<123, "Left">>, <<124, "Right">>, <<125, "Down">>, <<126, "Up">>
>>

\* impl From<NSKeyCode> for Option<keyboard::KeyCode>: the first arm that matches,
\* "None" for the wildcard arm.
KeyCode_from(key_code) ==
    LET hits == {i \in 1..Len(NSKeyCodeTable) : NSKeyCodeTable[i][1] = key_code}
    IN  IF hits = {} THEN "None"
        ELSE NSKeyCodeTable[CHOOSE i \in hits : \A j \in hits : i <= j][2]

\* impl From<ModifierFlags> for keyboard::ModifiersState: four mask tests.
ModifiersState_from(flags) ==
    [shift   |-> "NSShiftKeyMask" \in flags,
     control |-> "NSControlKeyMask" \in flags,
     alt     |-> "NSAlternateKeyMask" \in flags,
     logo    |-> "NSCommandKeyMask" \in flags]

\* The cast "value as u8" of an i64: the low eight bits.
as_u8(value) == value % U8Modulus

\* impl From<ButtonNumber> for mouse::Button.
Button_from(number) ==
    IF number = 2 THEN [button |-> "Middle"]
    ELSE [button |-> "Other", index |-> as_u8(number)]

\* The NUL character, which ends the C string UTF8String returns.
NUL == "NUL"

\* CStr::from_ptr(ptr): the bytes before the first NUL.
RECURSIVE CStr_from_ptr(_)
CStr_from_ptr(chars) ==
    IF chars = <<>> \/ Head(chars) = NUL THEN <<>>
    ELSE <<Head(chars)>> \o CStr_from_ptr(Tail(chars))

CharacterReceived(c) == [kind |-> "CharacterReceived", value |-> c]

\* NSEventT::into_chars: one CharacterReceived per char of the C string.
into_chars(event) ==
    LET chars == CStr_from_ptr(event.characters)
    IN  [i \in 1..Len(chars) |-> CharacterReceived(chars[i])]

KeyEvent(kind, kc, modifiers) ==
    [kind |-> kind, value |-> [key_code |-> kc, modifiers |-> modifiers]]

\* NSEventT::as_key_down.
as_key_down(event) ==
    LET modifiers == ModifiersState_from(event.modifierFlags)
        kc == KeyCode_from(event.keyCode)
    IN  into_chars(event)
        \o (IF kc = "None" THEN <<>> ELSE <<KeyEvent("KeyPressed", kc, modifiers)>>)

\* NSEventT::as_key_up.
as_key_up(event) ==
    LET modifiers == ModifiersState_from(event.modifierFlags)
        kc == KeyCode_from(event.keyCode)
    IN  IF kc = "None" THEN <<>> ELSE <<KeyEvent("KeyReleased", kc, modifiers)>>

\* NSView::convertPoint_fromView_(view, p, nil): the view is flipped and init_nsview
\* puts its frame at the origin, so a point keeps its offset from the frame origin.
convertPoint_fromView(v, p) == [x |-> p.x - v.frame_origin.x, y |-> p.y - v.frame_origin.y]

MouseButton(kind, b) == [kind |-> kind, value |-> b]

\* impl From<NSEventT<T>> for Vec<Event>.
Events_from(event, v) ==
    LET converted_location == convertPoint_fromView(v, event.locationInWindow)
        moved == [kind |-> "CursorMoved",
                  value |-> [x |-> converted_location.x, y |-> converted_location.y]]
        button_num == event.buttonNumber
        t == event.eventType
    IN  CASE t = "NSLeftMouseDown"    -> <<MouseButton("ButtonPressed", [button |-> "Left"])>>
          [] t = "NSLeftMouseUp"      -> <<MouseButton("ButtonReleased", [button |-> "Left"])>>
          [] t = "NSRightMouseDown"   -> <<MouseButton("ButtonPressed", [button |-> "Right"])>>
          [] t = "NSRightMouseUp"     -> <<MouseButton("ButtonReleased", [button |-> "Right"])>>
          [] t = "NSMouseMoved"       -> <<moved>>
          [] t = "NSLeftMouseDragged" -> <<moved>>
          [] t = "NSMouseEntered"     -> <<[kind |-> "CursorEntered", value |-> <<>>]>>
          [] t = "NSMouseExited"      -> <<[kind |-> "CursorLeft", value |-> <<>>]>>
          [] t = "NSKeyDown"          -> as_key_down(event)
          [] t = "NSKeyUp"            -> as_key_up(event)
          [] t = "NSScrollWheel"      ->
                <<[kind |-> "WheelScrolled",
                   value |-> [x |-> event.scrollingDeltaX, y |-> event.scrollingDeltaY]]>>
          [] t = "NSOtherMouseDown"   -> <<MouseButton("ButtonPressed", Button_from(button_num))>>
          [] t = "NSOtherMouseUp"     -> <<MouseButton("ButtonReleased", Button_from(button_num))>>
          [] OTHER                    -> <<>>

(***************************************************************************)
(* Inputs.                                                                 *)
(***************************************************************************)
\* Physical sizes a viewport is constructed with and a view is resized to.
Sizes == {[width |-> 400, height |-> 300], [width |-> 800, height |-> 600]}

\* backingScaleFactor of the window the view is in.
ScaleFactors == {2}

\* File URLs a dragging pasteboard can hold, each with its fileSystemRepresentation.
URLs == {"file:///a", "file:///b"}

\* A dragging-info object (the callbacks' sender) is known by the items its
\* draggingPasteboard holds, which stay the same for the whole drag.
Senders == {<<>>, <<"file:///a">>, <<"file:///a", "file:///b">>, <<"file:///b", "file:///a">>}

\* mouse::Interaction values the draw call can return.
MouseInteractions ==
    {"Idle", "Pointer", "Grab", "Text", "Crosshair", "Working", "Grabbing",
     "ResizingHorizontally", "ResizingVertically"}

\* The values the draw call returns in the runs explored.
DrawnInteractions == {"Idle", "Pointer"}

NSEventOf(t, code, chars, button) ==
    [eventType |-> t, keyCode |-> code, characters |-> chars, buttonNumber |-> button,
     modifierFlags |-> {}, locationInWindow |-> [x |-> 10, y |-> 20],
     scrollingDeltaX |-> 0, scrollingDeltaY |-> 0]

\* Native events delivered to the view's input selectors.
NSEvents ==
    {NSEventOf("NSLeftMouseDown", 0, <<>>, 0),
     NSEventOf("NSKeyDown", 0, <<"a">>, 0),
     NSEventOf("NSFlagsChanged", 56, <<>>, 0)}

\* Characters of a key event's text; NUL is what Control-@ types.
Chars == {"a", "b", "NUL"}

\* Native events handed to the translator: key events of every code and text with
\* and without modifiers, other-button events of every index, one of each other type.
TranslatorInputs ==
    {[NSEventOf(t, code, chars, 0) EXCEPT !.modifierFlags = flags] :
        t \in {"NSKeyDown", "NSKeyUp"}, code \in 0..MaxKeyCode,
        chars \in SeqsUpTo(Chars, MaxChars),
        flags \in {{}, {"NSShiftKeyMask", "NSCommandKeyMask", "NSAlphaShiftKeyMask"}}}
    \cup {NSEventOf(t, 0, <<>>, button) :
        t \in {"NSOtherMouseDown", "NSOtherMouseUp"}, button \in 0..MaxButton}
    \cup {NSEventOf(t, 0, <<>>, 0) :
        t \in {"NSLeftMouseDown", "NSLeftMouseUp", "NSRightMouseDown", "NSRightMouseUp",
               "NSMouseMoved", "NSLeftMouseDragged", "NSMouseEntered", "NSMouseExited",
               "NSScrollWheel", "NSFlagsChanged"}}

(***************************************************************************)
(* The native view and the EventHandler.                                   *)
(***************************************************************************)
NoSize == [width |-> 0, height |-> 0]

\* No native view: nothing allocated, or deallocated at retain count 0.
NoView ==
    [retain_count |-> 0, event_handler |-> "null", did_exit_drag |-> FALSE,
     in_live_resize |-> FALSE, needs_display |-> FALSE,
     bounds |-> NoSize, frame_origin |-> [x |-> 0, y |-> 0]]

\* No EventHandler.  trace lists, in order, what the most recent operation did to the
\* toolkit, the GPU and the cursor through the handler (nothing, if it did not use it).
NoHandler ==
    [status |-> "none", viewport |-> [physical_size |-> NoSize, scale_factor |-> 0],
     swap_chain |-> NoSize, queue |-> <<>>, trace |-> <<>>]

\* The drag callbacks since the last drag-ended: the last of drag-entered and
\* drag-exited, whether a drag-exited has followed a drag-entered, and the sender and
\* the paths of the last drag-entered.  NoDrag: none has come.
NoDrag == [last |-> "none", exited_after_entered |-> FALSE, sender |-> <<>>, hovered |-> <<>>]

Effect(name, value) == [effect |-> name, value |-> value]

Call(op, arg, result) == [op |-> op, arg |-> arg, result |-> result]

ViewExists == view.retain_count > 0

\* The _event_handler slot points to an EventHandler that has not been freed.
HandlerLive == view.event_handler = "handler" /\ handler.status = "live"

\* A callback the Objective-C runtime can deliver: the process runs and the view exists.
Deliverable == process = "running" /\ ViewExists

\* f64 "as u32" saturates: below at 0; its upper end, u32::MAX, lies above every
\* size explored here.
as_u32(x) == IF x < 0 THEN 0 ELSE x

Init ==
    /\ class_registered = FALSE
    /\ process = "running"
    /\ wrapper = "none"
    /\ view = NoView
    /\ handler = NoHandler
    /\ drag = NoDrag
    /\ call = Call("none", <<>>, "ok")

(***************************************************************************)
(* EventHandler (lib.rs 393-606).                                          *)
(***************************************************************************)
\* What an operation on the handler starts from: the handler with an empty trace.
begin(h) == [h EXCEPT !.trace = <<>>]

did(h, name, value) == [h EXCEPT !.trace = Append(@, Effect(name, value))]

\* device.create_swap_chain with a descriptor of the size's width and height.
create_swap_chain(h, size) ==
    did([h EXCEPT !.swap_chain = [width |-> size.width, height |-> size.height]],
        "create_swap_chain", [width |-> size.width, height |-> size.height])

\* EventHandler::new once the device is there: the swap-chain at the viewport's
\* physical size (init_swap_chain) and a program state with nothing queued.
EventHandler_new(size, scale_factor) ==
    create_swap_chain(
        [NoHandler EXCEPT !.status = "live",
                          !.viewport = [physical_size |-> size,
                                        scale_factor |-> scale_factor]],
        size)

\* EventHandler::queue_event: each event of the Vec goes to state.queue_event, in order.
RECURSIVE queue_event(_, _)
queue_event(h, events) ==
    IF events = <<>> THEN h
    ELSE queue_event(did([h EXCEPT !.queue = Append(@, Head(events))],
                         "state.queue_event", Head(events)),
                     Tail(events))

WindowEvent(kind, value) == [kind |-> kind, value |-> value]

\* EventHandler::on_window_event: the event alone in a Vec.
on_window_event(h, event) == queue_event(h, <<event>>)

Resized(size) == WindowEvent("Resized", [width |-> size.width, height |-> size.height])

\* A plausible slip: the viewport is renewed but the old swap-chain kept.
EventHandler_resize_KeepingSwapChain(h, new_size, scale_factor) ==
    on_window_event(
        did([h EXCEPT !.viewport = [physical_size |-> new_size,
                                    scale_factor |-> scale_factor]],
            "Viewport::with_physical_size", new_size),
        Resized(new_size))

\* A plausible slip: the Resized event carries the size the viewport had before.
EventHandler_resize_StaleEvent(h, new_size, scale_factor) ==
    LET with_viewport ==
            did([h EXCEPT !.viewport = [physical_size |-> new_size,
                                        scale_factor |-> scale_factor]],
                "Viewport::with_physical_size", new_size)
    IN  on_window_event(create_swap_chain(with_viewport, new_size),
                        Resized(h.viewport.physical_size))

\* EventHandler::resize: new viewport, new swap-chain, then the Resized event.
EventHandler_resize(h, new_size, scale_factor) ==
    LET with_viewport ==
            did([h EXCEPT !.viewport = [physical_size |-> new_size,
                                        scale_factor |-> scale_factor]],
                "Viewport::with_physical_size", new_size)
    IN  on_window_event(create_swap_chain(with_viewport, new_size), Resized(new_size))

\* A plausible slip: state.update called whether or not anything is queued.
update_state_Unconditional(h) == did([h EXCEPT !.queue = <<>>], "state.update", h.queue)

\* EventHandler::update_state: state.update drains the queue and applies its events,
\* unless the queue is empty.
update_state(h) ==
    IF h.queue # <<>> THEN did([h EXCEPT !.queue = <<>>], "state.update", h.queue) ELSE h

\* EventHandler::set_cursor_icon: the NSCursor selector for a mouse::Interaction.
set_cursor_icon(cursor) ==
    CASE cursor = "Idle"                 -> "arrowCursor"
      [] cursor = "Pointer"              -> "pointingHandCursor"
      [] cursor = "Grab"                 -> "openHandCursor"
      [] cursor = "Text"                 -> "IBeamCursor"
      [] cursor = "Crosshair"            -> "crosshairCursor"
      [] cursor = "Working"              -> "arrowCursor"
      [] cursor = "Grabbing"             -> "closedHandCursor"
      [] cursor = "ResizingHorizontally" -> "resizeLeftRightCursor"
      [] cursor = "ResizingVertically"   -> "resizeUpDownCursor"

\* A plausible slip: the cursor set from the draw call's value before the submission.
render_frame_CursorFirst(h, mouse_interaction) ==
    LET frame == h.swap_chain
    IN  did(did(did(did(did(did(h,
            "render_started", <<>>),
            "render_pass", [frame |-> frame, load_op |-> "Clear"]),
            "render_pass_iced", [frame |-> frame, returns |-> mouse_interaction]),
            "set_cursor_icon", set_cursor_icon(mouse_interaction)),
            "queue.submit", <<"encoder">>),
            "render_finished", <<>>)

\* The body of redraw's "if let Ok(frame)": render_started, the clear pass and the
\* toolkit's draw into one encoder against the frame, the submission of that one
\* command buffer, render_finished, then the cursor for the value the draw returned.
render_frame(h, mouse_interaction) ==
    LET frame == h.swap_chain
    IN  did(did(did(did(did(did(h,
            "render_started", <<>>),
            "render_pass", [frame |-> frame, load_op |-> "Clear"]),
            "render_pass_iced", [frame |-> frame, returns |-> mouse_interaction]),
            "queue.submit", <<"encoder">>),
            "render_finished", <<>>),
            "set_cursor_icon", set_cursor_icon(mouse_interaction))

\* swap_chain.get_next_texture(), which returns Ok(frame) when frame_ok and Err if not.
get_next_texture(h, frame_ok) ==
    did(h, "get_next_texture", [result |-> IF frame_ok THEN "Ok" ELSE "Err"])

\* A plausible slip: render_started recorded before the frame is asked for.
redraw_MarkingBeforeAcquire(h, frame_ok, mouse_interaction) ==
    LET acquired == get_next_texture(did(update_state(h), "render_started", <<>>), frame_ok)
    IN  IF frame_ok THEN render_frame(acquired, mouse_interaction) ELSE acquired

\* A plausible slip: the state update made only once a frame is acquired.
redraw_UpdatingOnFrame(h, frame_ok, mouse_interaction) ==
    IF frame_ok
    THEN render_frame(get_next_texture(update_state(h), frame_ok), mouse_interaction)
    ELSE get_next_texture(h, frame_ok)

\* EventHandler::redraw: the state update, then the frame if one is acquired:
\* frame_ok is whether get_next_texture returns Ok, mouse_interaction what the draw
\* call returns.
redraw(h, frame_ok, mouse_interaction) ==
    LET acquired == get_next_texture(update_state(h), frame_ok)
    IN  IF frame_ok THEN render_frame(acquired, mouse_interaction) ELSE acquired

(***************************************************************************)
(* Clipboard/drag adapter (lib.rs 243-253, 888-891).                       *)
(***************************************************************************)
\* pathbuf_from_nsurl: the URL's fileSystemRepresentation as a PathBuf.
pathbuf_from_nsurl(url) ==
    CASE url = "file:///a" -> "/a"
      [] url = "file:///b" -> "/b"

\* A plausible slip: the items read from the last index down.
paths_from_dragged_info_Reversed(info) ==
    [n \in 1..Len(info) |-> pathbuf_from_nsurl(info[Len(info) + 1 - n])]

\* IcedView::paths_from_dragged_info: items 0..count of the pasteboard, in order.
paths_from_dragged_info(info) == [n \in 1..Len(info) |-> pathbuf_from_nsurl(info[n])]

\* One window event of the kind per path, in the paths' order.
each(paths, kind) == [i \in 1..Len(paths) |-> WindowEvent(kind, paths[i])]

FileHovered(pathbuf) == WindowEvent("FileHovered", pathbuf)
FileDropped(pathbuf) == WindowEvent("FileDropped", pathbuf)
FilesHoveredLeft == WindowEvent("FilesHoveredLeft", <<>>)

\* paths.into_iter().for_each(|pathbuf| on_window_event(make(pathbuf))).
RECURSIVE for_each_on_window_event(_, _)
for_each_on_window_event(h, events) ==
    IF events = <<>> THEN h
    ELSE for_each_on_window_event(on_window_event(h, Head(events)), Tail(events))

(***************************************************************************)
(* Facade: IcedView::new and Drop (lib.rs 75-154, 291-303, 407-449).       *)
(***************************************************************************)
\* A process that has aborted: nothing of it is left.
Aborted(op) ==
    /\ process' = "aborted"
    /\ class_registered' = FALSE
    /\ wrapper' = "none"
    /\ view' = NoView
    /\ handler' = NoHandler
    /\ drag' = NoDrag
    /\ call' = Call(op, <<>>, "abort")

\* A plausible slip: the class already registered is used again.
ClassDecl_new_Reusing(registered) == TRUE

\* ClassDecl::new("IcedView", superclass) in declare_class: Some, unless a class of
\* that name is registered.
ClassDecl_new(registered) == ~registered

\* IcedView::init_nsview after declare_class: alloc and initWithFrame give a view with
\* retain count 1, zeroed instance variables and the viewport's size as its frame.
init_nsview(size) ==
    [NoView EXCEPT !.retain_count = 1,
                   !.bounds = [width |-> size.width, height |-> size.height]]

\* EventHandler::init_surface_layer: the layer is set up and the view is retained.
init_surface_layer(v) == [v EXCEPT !.retain_count = @ + 1]

\* IcedView::new(application, viewport, settings).  adapter_ok is whether
\* Adapter::request finds an adapter.  A panic (expect) takes the process down
\* (abort), or unwinds to a host that catches it and goes on.
IcedView_new(size, scale_factor, adapter_ok, abort) ==
    LET arg == [size |-> size, adapter_ok |-> adapter_ok]
    IN  /\ process = "running"
        /\ IF ~ClassDecl_new(class_registered)
           THEN \* expect("Can't declare IcedView class.")
                IF abort THEN Aborted("new")
                ELSE /\ call' = Call("new", <<>>, "panic")
                     /\ handler' = begin(handler)
                     /\ UNCHANGED <<class_registered, process, wrapper, view, drag>>
           ELSE IF ~adapter_ok
           THEN \* expect("Request adapter"), with the class registered, the view
                \* allocated and retained, and its slot still null
                IF abort THEN Aborted("new")
                ELSE /\ class_registered' = TRUE
                     /\ view' = init_surface_layer(init_nsview(size))
                     /\ call' = Call("new", arg, "panic")
                     /\ UNCHANGED <<process, wrapper, handler, drag>>
           ELSE /\ class_registered' = TRUE
                /\ view' = [init_surface_layer(init_nsview(size))
                              EXCEPT !.event_handler = "handler"]
                /\ handler' = EventHandler_new(size, scale_factor)
                /\ wrapper' = "live"
                /\ drag' = NoDrag
                /\ call' = Call("new", arg, "ok")
                /\ UNCHANGED process

\* [object release]: the view is deallocated when its retain count reaches zero.
release(v) == IF v.retain_count = 1 THEN NoView ELSE [v EXCEPT !.retain_count = @ - 1]

\* impl Drop for IcedView: the boxed EventHandler is freed, the view released once.
IcedView_drop ==
    /\ process = "running"
    /\ wrapper = "live"
    /\ wrapper' = "dropped"
    /\ handler' = [NoHandler EXCEPT !.status = "freed"]
    /\ view' = release(view)
    /\ call' = Call("drop", <<>>, "ok")
    /\ UNCHANGED <<class_registered, process, drag>>

(***************************************************************************)
(* Native View Shim: the callbacks of the view class (lib.rs 178-278).     *)
(***************************************************************************)
\* IcedView::dragging_entered.
dragging_entered(sender) ==
    LET events == each(paths_from_dragged_info(sender), "FileHovered")
    IN  /\ Deliverable /\ HandlerLive
        /\ Len(handler.queue) + Len(events) <= MaxQueue
        /\ view' = [view EXCEPT !.did_exit_drag = FALSE]
        /\ handler' = for_each_on_window_event(begin(handler), events)
        /\ drag' = [drag EXCEPT !.last = "entered", !.sender = sender,
                                !.hovered = paths_from_dragged_info(sender)]
        /\ call' = Call("dragging_entered", sender, "ok")
        /\ UNCHANGED <<class_registered, process, wrapper>>

\* A plausible slip: the drop is queued without looking at _did_exit_drag.
dragging_ended_events_IgnoringExit(did_exit_drag, sender) ==
    each(paths_from_dragged_info(sender), "FileDropped")

\* A plausible slip: the drop of the first path only.
dragging_ended_events_FirstOnly(did_exit_drag, sender) ==
    IF did_exit_drag \/ sender = <<>> THEN <<>>
    ELSE <<FileDropped(pathbuf_from_nsurl(sender[1]))>>

\* The events dragging_ended queues: none when _did_exit_drag is set.
dragging_ended_events(did_exit_drag, sender) ==
    IF did_exit_drag THEN <<>> ELSE each(paths_from_dragged_info(sender), "FileDropped")

\* IcedView::dragging_ended.
dragging_ended(sender) ==
    LET events == dragging_ended_events(view.did_exit_drag, sender)
    IN  /\ Deliverable /\ HandlerLive
        /\ Len(handler.queue) + Len(events) <= MaxQueue
        /\ handler' = for_each_on_window_event(begin(handler), events)
        /\ drag' = NoDrag
        /\ call' = Call("dragging_ended", [sender |-> sender, drag |-> drag], "ok")
        /\ UNCHANGED <<class_registered, process, wrapper, view>>

\* IcedView::dragging_exited.
dragging_exited(sender) ==
    /\ Deliverable /\ HandlerLive
    /\ Len(handler.queue) + 1 <= MaxQueue
    /\ view' = [view EXCEPT !.did_exit_drag = TRUE]
    /\ handler' = on_window_event(begin(handler), FilesHoveredLeft)
    /\ drag' = [drag EXCEPT !.last = "exited",
                            !.exited_after_entered = @ \/ drag.last = "entered"]
    /\ call' = Call("dragging_exited", sender, "ok")
    /\ UNCHANGED <<class_registered, process, wrapper>>

\* IcedView::handle_event: translate, queue, setNeedsDisplay: YES.
handle_event(event) ==
    LET events == Events_from(event, view)
    IN  /\ Deliverable /\ HandlerLive
        /\ Len(handler.queue) + Len(events) <= MaxQueue
        /\ handler' = queue_event(begin(handler), events)
        /\ view' = [view EXCEPT !.needs_display = TRUE]
        /\ call' = Call("handle_event", event, "ok")
        /\ UNCHANGED <<class_registered, process, wrapper, drag>>

\* The size IcedView::resize hands to the handler: the view's bounds cast to u32.
IcedView_resize_size(v) ==
    [width |-> as_u32(v.bounds.width), height |-> as_u32(v.bounds.height)]

\* IcedView::resize: the handler's resize at the bounds and the window's
\* backingScaleFactor.
IcedView_resize(h, v, scale_factor) ==
    EventHandler_resize(h, IcedView_resize_size(v), scale_factor)

ResizeArg(in_resize, frame_ok) ==
    [in_resize |-> in_resize, frame_ok |-> frame_ok,
     new_size |-> IcedView_resize_size(view), old_size |-> handler.viewport.physical_size]

\* viewWillStartLiveResize: AppKit enters live resize and calls IcedView::resize.
viewWillStartLiveResize(scale_factor) ==
    /\ Deliverable /\ HandlerLive
    /\ ~view.in_live_resize
    /\ Len(handler.queue) + 1 <= MaxQueue
    /\ view' = [view EXCEPT !.in_live_resize = TRUE]
    /\ handler' = IcedView_resize(begin(handler), view, scale_factor)
    /\ call' = Call("viewWillStartLiveResize", ResizeArg(FALSE, FALSE), "ok")
    /\ UNCHANGED <<class_registered, process, wrapper, drag>>

\* viewDidEndLiveResize: AppKit leaves live resize and calls IcedView::resize.
viewDidEndLiveResize(scale_factor) ==
    /\ Deliverable /\ HandlerLive
    /\ view.in_live_resize
    /\ Len(handler.queue) + 1 <= MaxQueue
    /\ view' = [view EXCEPT !.in_live_resize = FALSE]
    /\ handler' = IcedView_resize(begin(handler), view, scale_factor)
    /\ call' = Call("viewDidEndLiveResize", ResizeArg(TRUE, FALSE), "ok")
    /\ UNCHANGED <<class_registered, process, wrapper, drag>>

\* A plausible slip: the resize step on every updateLayer, in a live resize or not.
update_layer_AlwaysResizing(scale_factor, frame_ok, mouse_interaction) ==
    LET resized == IcedView_resize(begin(handler), view, scale_factor)
    IN  /\ Deliverable /\ HandlerLive
        /\ Len(resized.queue) <= MaxQueue
        /\ handler' = redraw(resized, frame_ok, mouse_interaction)
        /\ view' = [view EXCEPT !.needs_display = FALSE]
        /\ call' = Call("update_layer", ResizeArg(view.in_live_resize, frame_ok), "ok")
        /\ UNCHANGED <<class_registered, process, wrapper, drag>>

\* IcedView::update_layer: the resize step when in live resize, then the redraw.
\* AppKit calls it in its display pass, which clears the view's needsDisplay.
update_layer(scale_factor, frame_ok, mouse_interaction) ==
    LET in_resize == view.in_live_resize
        resized == IF in_resize
                   THEN IcedView_resize(begin(handler), view, scale_factor)
                   ELSE begin(handler)
    IN  /\ Deliverable /\ HandlerLive
        /\ Len(resized.queue) <= MaxQueue
        /\ handler' = redraw(resized, frame_ok, mouse_interaction)
        /\ view' = [view EXCEPT !.needs_display = FALSE]
        /\ call' = Call("update_layer", ResizeArg(in_resize, frame_ok), "ok")
        /\ UNCHANGED <<class_registered, process, wrapper, drag>>

\* The host or AppKit gives the view a new frame size (setFrameSize:, autoresizing).
\* The class overrides none of the frame-change hooks; the redraw policy set in
\* init_nsview marks the view for display.
setFrameSize(size) ==
    /\ Deliverable
    /\ view.bounds # size
    /\ view' = [view EXCEPT !.bounds = size, !.needs_display = TRUE]
    /\ handler' = begin(handler)
    /\ call' = Call("setFrameSize", size, "ok")
    /\ UNCHANGED <<class_registered, process, wrapper, drag>>

\* Selectors of the class whose methods read the _event_handler slot and dereference it.
Callbacks ==
    {"updateLayer", "viewWillStartLiveResize", "viewDidEndLiveResize", "draggingEntered:",
     "draggingEnded:", "draggingExited:", "mouseDown:", "keyDown:"}

\* A callback on a view whose slot is null (construction failed) or points to the
\* freed EventHandler (the wrapper was dropped): undefined behaviour, which crashes
\* the process or goes unnoticed.
callback_without_handler(cb, crash) ==
    /\ Deliverable /\ ~HandlerLive
    /\ IF crash THEN Aborted("callback_without_handler")
       ELSE /\ call' = Call("callback_without_handler", cb, "undefined")
            /\ UNCHANGED <<class_registered, process, wrapper, view, handler, drag>>

Next ==
    \/ \E size \in Sizes, scale_factor \in ScaleFactors, adapter_ok \in BOOLEAN,
          abort \in BOOLEAN : IcedView_new(size, scale_factor, adapter_ok, abort)
    \/ IcedView_drop
    \/ \E sender \in Senders : dragging_entered(sender)
    \/ \E sender \in Senders : dragging_ended(sender)
    \/ \E sender \in Senders : dragging_exited(sender)
    \/ \E event \in NSEvents : handle_event(event)
    \/ \E scale_factor \in ScaleFactors : viewWillStartLiveResize(scale_factor)
    \/ \E scale_factor \in ScaleFactors : viewDidEndLiveResize(scale_factor)
    \/ \E scale_factor \in ScaleFactors, frame_ok \in BOOLEAN,
          mouse_interaction \in DrawnInteractions :
            update_layer(scale_factor, frame_ok, mouse_interaction)
    \/ \E size \in Sizes : setFrameSize(size)
    \/ \E cb \in Callbacks, crash \in BOOLEAN : callback_without_handler(cb, crash)

Spec == Init /\ [][Next]_vars

(***************************************************************************)
(* Drag and drop.                                                          *)
(***************************************************************************)
\* The step is the callback or operation op.
Does(op) == call'.op = op /\ call'.result = "ok"

\* C1 as stated, for the drag-ended of the very drag that entered, with a path on
\* its pasteboard: once drag-entered has been followed by drag-exited with no
\* drag-ended in between, the next drag-ended queues no event.
C1_NextEndedAfterExitQueuesNothing ==
    [][(/\ Does("dragging_ended")
        /\ drag.exited_after_entered
        /\ call'.arg.sender = drag.sender
        /\ drag.sender # <<>>)
         => handler'.queue = handler.queue]_vars

\* C1 amended: once drag-entered has been followed by drag-exited with no drag-ended
\* in between, and no drag-entered has come after that drag-exited, the next
\* drag-ended queues no event, whatever the pasteboard holds.
C1_EndedAfterExitQueuesNothing ==
    [][(Does("dragging_ended") /\ drag.exited_after_entered /\ drag.last = "exited")
         => handler'.queue = handler.queue]_vars

\* C1 witness: a drag-ended with two paths on its pasteboard has run right after the
\* drag-exited that followed a drag-entered, and queued nothing.
C1_Witness ==
    /\ call.op = "dragging_ended"
    /\ call.arg.drag.exited_after_entered
    /\ call.arg.drag.last = "exited"
    /\ Len(call.arg.sender) = 2
    /\ handler.trace = <<>>
    /\ handler.queue # <<>>

\* C2: a drag-ended of the drag that entered, with no drag-exited since it entered,
\* queues FileDropped(p1)..FileDropped(pn) for the paths p1..pn the drag entered
\* with, each once and in that order, and nothing else.
C2_EndedQueuesDropPerHoveredPath ==
    [][(Does("dragging_ended") /\ drag.last = "entered" /\ call'.arg.sender = drag.sender)
         => handler'.queue =
              handler.queue \o [i \in 1..Len(drag.hovered) |-> FileDropped(drag.hovered[i])]]_vars

\* C2 witness: a drag that entered with two paths has ended without exiting, and
\* the queue ends with the two drops.
C2_Witness ==
    /\ call.op = "dragging_ended"
    /\ call.arg.drag.last = "entered"
    /\ call.arg.sender = call.arg.drag.sender
    /\ call.arg.drag.hovered = <<"/b", "/a">>
    /\ handler.queue = <<FileDropped("/b"), FileDropped("/a")>>

\* C3: drag-entered queues one FileHovered per item of the dragging pasteboard, in
\* the pasteboard's order, and clears the exit flag; drag-exited sets the exit flag
\* and queues one FilesHoveredLeft.
C3_EnteredHoversExitedLeaves ==
    [][/\ Does("dragging_entered")
            => /\ handler'.queue =
                    handler.queue \o [i \in 1..Len(call'.arg) |->
                                        FileHovered(pathbuf_from_nsurl(call'.arg[i]))]
               /\ ~view'.did_exit_drag
       /\ Does("dragging_exited")
            => /\ handler'.queue = Append(handler.queue, FilesHoveredLeft)
               /\ view'.did_exit_drag]_vars

\* C3 witness: after a drag-exited had set the flag, a drag-entered with two
\* different paths has cleared it and queued the two hovers in pasteboard order.
C3_Witness ==
    /\ call.op = "dragging_entered"
    /\ call.arg = <<"file:///b", "file:///a">>
    /\ handler.queue = <<FileHovered("/b"), FileHovered("/a")>>
    /\ drag.exited_after_entered
    /\ ~view.did_exit_drag

(***************************************************************************)
(* Resize and the swap-chain.                                              *)
(***************************************************************************)
\* The step hands call'.arg.new_size to EventHandler::resize.
Resizes ==
    \/ Does("viewWillStartLiveResize")
    \/ Does("viewDidEndLiveResize")
    \/ Does("update_layer") /\ call'.arg.in_resize

\* The places of the effects named name in a trace.
Places(trace, name) == {i \in 1..Len(trace) : trace[i].effect = name}

\* The swap-chain's declared size is the viewport's physical size.
SwapChainMatchesViewport ==
    HandlerLive =>
        /\ handler.swap_chain.width = handler.viewport.physical_size.width
        /\ handler.swap_chain.height = handler.viewport.physical_size.height

\* C4: while the handler lives, the swap-chain's width and height are the viewport's
\* physical size, which is the size of the construction until a resize, then the size
\* given to the most recent resize; every resize creates the swap-chain anew, also
\* at an unchanged size.
C4_SwapChainFollowsResize ==
    [][/\ SwapChainMatchesViewport'
       /\ Does("new")
            => handler'.viewport.physical_size = call'.arg.size
       /\ Resizes
            => /\ handler'.viewport.physical_size = call'.arg.new_size
               /\ \E i \in Places(handler'.trace, "create_swap_chain") :
                     handler'.trace[i].value = call'.arg.new_size
       /\ (HandlerLive /\ HandlerLive' /\ ~Resizes)
            => /\ handler'.viewport = handler.viewport
               /\ handler'.swap_chain = handler.swap_chain
               /\ Places(handler'.trace, "create_swap_chain") = {}]_vars

\* C4 witness: a handler constructed at 400x300 has been resized to 800x600, redrawn,
\* and resized again at the unchanged size.
C4_Witness ==
    /\ call.op = "viewDidEndLiveResize"
    /\ call.arg.old_size = [width |-> 800, height |-> 600]
    /\ call.arg.new_size = [width |-> 800, height |-> 600]
    /\ handler.swap_chain = [width |-> 800, height |-> 600]
    /\ Places(handler.trace, "create_swap_chain") # {}

\* C5: a handler resize to (W,H) queues exactly one event, Resized with width W and
\* height H, at the end of the queue and after it has created the swap-chain at
\* (W,H); the construction queues nothing.
C5_ResizeQueuesOneResized ==
    [][/\ Resizes
            => LET trace == handler'.trace
                   event == Resized(call'.arg.new_size)
                   queued == Places(trace, "state.queue_event")
                   created == Places(trace, "create_swap_chain")
               IN  /\ Cardinality(queued) = 1
                   /\ \A q \in queued :
                        /\ trace[q].value = event
                        /\ \E c \in created :
                              c < q /\ trace[c].value = call'.arg.new_size
                   /\ IF Does("update_layer")
                      THEN \E u \in Places(trace, "state.update") :
                              /\ \A q \in queued : q < u
                              /\ trace[u].value = Append(handler.queue, event)
                      ELSE handler'.queue = Append(handler.queue, event)
       /\ Does("new")
            => /\ handler'.queue = <<>>
               /\ Places(handler'.trace, "state.queue_event") = {}]_vars

\* C5 witness: a handler constructed at 400x300 has been resized to 800x600 and
\* its queue holds the one event Resized 800x600.
C5_Witness ==
    /\ call.op = "viewWillStartLiveResize"
    /\ call.arg.old_size = [width |-> 400, height |-> 300]
    /\ call.arg.new_size = [width |-> 800, height |-> 600]
    /\ handler.swap_chain = [width |-> 800, height |-> 600]
    /\ handler.queue = <<Resized([width |-> 800, height |-> 600])>>

(***************************************************************************)
(* Lifetime of the view and its EventHandler.                              *)
(***************************************************************************)
\* C6 as stated: once the wrapper is dropped the native view is gone (its retain
\* count is zero) and the EventHandler freed, and no callback runs on the view after
\* its EventHandler was freed.
C6_DropDestroysViewAndHandler ==
    wrapper = "dropped" =>
        /\ ~ViewExists
        /\ handler.status = "freed"
        /\ call.op # "callback_without_handler"

\* C7 as stated, for a view whose construction has finished: while the native view
\* exists, its _event_handler slot is non-null and points to a live EventHandler,
\* the only one.
C7_ViewHasLiveHandler ==
    (wrapper # "none" /\ ViewExists) =>
        /\ view.event_handler # "null"
        /\ handler.status = "live"

\* The step is a call of IcedView::new, however it ended.
CallsNew == call'.op = "new"

\* The call of IcedView::new failed fatally and returned no view: it panicked and
\* left wrapper, view and handler as they were, or the process is gone.
NewFailed ==
    \/ call'.result = "abort" /\ process' = "aborted"
    \/ /\ call'.result = "panic"
       /\ process' = "running"
       /\ wrapper' = wrapper
       /\ handler'.status = handler.status

\* C8 as stated, for the calls the process survives: a call of IcedView::new made
\* while a class named IcedView is registered fails fatally and returns no view; a
\* call made while none is registered registers the class and succeeds.
C8_NewFailsIffRegistered ==
    [][(CallsNew /\ process' = "running") =>
         IF class_registered
         THEN NewFailed /\ view' = view
         ELSE /\ class_registered'
              /\ call'.result = "ok"
              /\ wrapper' = "live"
              /\ HandlerLive']_vars

\* C8 amended: a call of IcedView::new made while a class named IcedView is
\* registered fails fatally and returns no view; a call made while none is
\* registered registers the class and succeeds if a GPU adapter is found, and fails
\* fatally if none is (the class stays registered in a process that survives).
C8_NewFailsIffRegisteredOrNoAdapter ==
    [][CallsNew =>
         IF class_registered
         THEN NewFailed /\ (process' = "running" => view' = view /\ class_registered')
         ELSE \/ /\ call'.result = "ok"
                 /\ call'.arg.adapter_ok
                 /\ class_registered'
                 /\ wrapper' = "live"
                 /\ HandlerLive'
              \/ /\ NewFailed
                 /\ process' = "running" => class_registered' /\ ~call'.arg.adapter_ok]_vars

\* C8 witness: a second call of IcedView::new, made with a view alive and the class
\* registered, has panicked and left that view and its handler in place.
C8_Witness ==
    /\ call.op = "new"
    /\ call.result = "panic"
    /\ class_registered
    /\ wrapper = "live"
    /\ HandlerLive

(***************************************************************************)
(* The render loop (C11 - C13, C16, C17).                                  *)
(***************************************************************************)
\* The step is an updateLayer that ran to its end; call'.arg.frame_ok tells whether
\* its redraw acquired a frame.
Redraws == Does("update_layer")

\* The effects of rendering a frame.
RenderEffects ==
    {"render_started", "render_pass", "render_pass_iced", "queue.submit",
     "render_finished", "set_cursor_icon"}

\* The names of the trace's effects that are in the set, in the trace's order.
Steps(trace, names) ==
    LET In(e) == e.effect \in names
        kept == SelectSeq(trace, In)
    IN  [i \in 1..Len(kept) |-> kept[i].effect]

\* The whole of a rendered frame, in the order of redraw's body.
RenderedFrame ==
    <<"render_started", "render_pass", "render_pass_iced", "queue.submit",
      "render_finished", "set_cursor_icon">>

\* C11: a redraw whose frame acquisition fails records no render-start or
\* render-finish marker, submits nothing and sets no cursor; it asks for the frame
\* once (no retry), raises nothing and leaves the handler live with its swap-chain;
\* and the redraw right after a failed one, if it acquires its frame, renders the
\* whole frame.
C11_FailedAcquireSkipsRendering ==
    [][/\ (Redraws /\ ~call'.arg.frame_ok) =>
            /\ Steps(handler'.trace, RenderEffects) = <<>>
            /\ Steps(handler'.trace, {"get_next_texture"}) = <<"get_next_texture">>
            /\ process' = "running" /\ HandlerLive'
            /\ ~call'.arg.in_resize => handler'.swap_chain = handler.swap_chain
       /\ (call.op = "update_layer" /\ call.result = "ok" /\ ~call.arg.frame_ok
            /\ Redraws /\ call'.arg.frame_ok) =>
            Steps(handler'.trace, RenderEffects) = RenderedFrame]_vars

\* A redraw with events queued has failed to acquire its frame.
C11_Witness ==
    /\ call.op = "update_layer" /\ call.result = "ok" /\ ~call.arg.frame_ok
    /\ HandlerLive
    /\ Steps(handler.trace, {"state.update", "get_next_texture"})
         = <<"state.update", "get_next_texture">>
    /\ handler.trace[Len(handler.trace)].value.result = "Err"

\* The steps C12 names, and the acquisition they depend on.
RedrawSteps == RenderEffects \cup {"state.update", "get_next_texture"}

\* The one effect of the name in the trace.
The(trace, name) == trace[CHOOSE i \in Places(trace, name) : TRUE]

\* C12: a redraw that acquires its frame does, once each and in this order: the
\* state update if events are queued, (the acquisition,) render-start, the clear
\* pass, the toolkit's draw against the acquired frame, the submission of the one
\* command buffer, render-finish, and the cursor update for the mouse interaction
\* that draw returned.
C12_RedrawOrder ==
    [][(Redraws /\ call'.arg.frame_ok) =>
         LET trace == handler'.trace
             queued == handler.queue # <<>> \/ call'.arg.in_resize
         IN  /\ Steps(trace, RedrawSteps)
                  = (IF queued THEN <<"state.update">> ELSE <<>>)
                    \o <<"get_next_texture">> \o RenderedFrame
             /\ The(trace, "render_pass").value
                  = [frame |-> handler'.swap_chain, load_op |-> "Clear"]
             /\ The(trace, "render_pass_iced").value.frame = handler'.swap_chain
             /\ Len(The(trace, "queue.submit").value) = 1
             /\ The(trace, "set_cursor_icon").value
                  = set_cursor_icon(The(trace, "render_pass_iced").value.returns)]_vars

\* A redraw with events queued has rendered a frame whose draw returned Pointer.
C12_Witness ==
    /\ call.op = "update_layer" /\ call.result = "ok" /\ call.arg.frame_ok
    /\ Places(handler.trace, "state.update") # {}
    /\ Places(handler.trace, "render_pass_iced") # {}
    /\ The(handler.trace, "render_pass_iced").value.returns = "Pointer"
    /\ The(handler.trace, "set_cursor_icon").value = "pointingHandCursor"

\* What is queued when the redraw of the updateLayer step starts: the queue before
\* the step, and behind it the Resized event of the resize step in a live resize.
QueueAtRedraw ==
    IF call'.arg.in_resize
    THEN Append(handler.queue, Resized(call'.arg.new_size))
    ELSE handler.queue

\* C13: a redraw calls the toolkit's state update if and only if something is
\* queued; the one update it then makes takes all the queued events in the order
\* they were queued; the queue is empty after every redraw; and with nothing queued
\* the redraw has no effect other than acquiring and rendering the frame.
C13_UpdateIffQueued ==
    [][Redraws =>
         LET trace == handler'.trace
             updates == Places(trace, "state.update")
         IN  /\ updates # {} <=> QueueAtRedraw # <<>>
             /\ Cardinality(updates) <= 1
             /\ \A u \in updates : trace[u].value = QueueAtRedraw
             /\ handler'.queue = <<>>
             /\ QueueAtRedraw = <<>> =>
                  Steps(trace, RedrawSteps) = Steps(trace, RenderEffects \cup {"get_next_texture"})
                  /\ Len(trace) = Len(Steps(trace, RedrawSteps))]_vars

\* A redraw has applied two queued events in one update and left the queue empty.
C13_Witness ==
    /\ call.op = "update_layer" /\ call.result = "ok" /\ ~call.arg.in_resize
    /\ Cardinality(Places(handler.trace, "state.update")) = 1
    /\ Len(The(handler.trace, "state.update").value) = MaxQueue
    /\ handler.queue = <<>>

\* The effects of EventHandler::resize, in its order.
ResizeStep == <<"Viewport::with_physical_size", "create_swap_chain", "state.queue_event">>

\* C16: updateLayer does the resize step, ahead of the redraw, if and only if the
\* view is in a live resize: then just one handler resize at the view's bounds (one
\* swap-chain, one Resized event) and one redraw, whose state update takes that
\* Resized event as its last; outside a live resize only the one redraw.
C16_UpdateLayerResizesInLiveResize ==
    [][Redraws =>
         LET trace == handler'.trace
             new_size == IcedView_resize_size(view)
         IN  /\ Cardinality(Places(trace, "get_next_texture")) = 1
             /\ IF view.in_live_resize
                THEN /\ Len(trace) >= 4
                     /\ [i \in 1..3 |-> trace[i].effect] = ResizeStep
                     /\ Steps(trace, {ResizeStep[i] : i \in 1..3}) = ResizeStep
                     /\ trace[2].value = new_size
                     /\ trace[3].value = Resized(new_size)
                     /\ trace[4].effect = "state.update"
                     /\ trace[4].value = Append(handler.queue, Resized(new_size))
                     /\ handler'.swap_chain = new_size
                ELSE /\ Steps(trace, {ResizeStep[i] : i \in 1..3}) = <<>>
                     /\ handler'.swap_chain = handler.swap_chain
                     /\ handler'.viewport = handler.viewport]_vars

\* An updateLayer in a live resize has rebuilt the swap-chain at a new size and
\* applied its Resized event behind an event queued before.
C16_Witness ==
    /\ call.op = "update_layer" /\ call.result = "ok" /\ call.arg.in_resize
    /\ view.in_live_resize
    /\ call.arg.new_size # call.arg.old_size
    /\ handler.swap_chain = call.arg.new_size
    /\ Places(handler.trace, "state.update") # {}
    /\ LET applied == The(handler.trace, "state.update").value
       IN  Len(applied) = 2 /\ applied[2] = Resized(call.arg.new_size)

\* C17: a redraw that fails to acquire its frame while events are queued has still
\* applied all of them, before asking for the frame, and leaves the queue empty; the
\* redraw right after it applies none of them again (at most the Resized event of
\* its own resize step).
C17_FailedAcquireStillDrains ==
    [][/\ (Redraws /\ ~call'.arg.frame_ok /\ QueueAtRedraw # <<>>) =>
            /\ Steps(handler'.trace, {"state.update", "get_next_texture"})
                 = <<"state.update", "get_next_texture">>
            /\ The(handler'.trace, "state.update").value = QueueAtRedraw
            /\ handler'.queue = <<>>
       /\ (call.op = "update_layer" /\ call.result = "ok" /\ ~call.arg.frame_ok
            /\ Redraws) =>
            \A u \in Places(handler'.trace, "state.update") :
                /\ call'.arg.in_resize
                /\ handler'.trace[u].value = <<Resized(call'.arg.new_size)>>]_vars

\* A redraw outside a live resize lost its frame after applying a full queue.
C17_Witness ==
    /\ call.op = "update_layer" /\ call.result = "ok"
    /\ ~call.arg.frame_ok /\ ~call.arg.in_resize
    /\ Places(handler.trace, "state.update") # {}
    /\ Len(The(handler.trace, "state.update").value) = MaxQueue
    /\ handler.trace[Len(handler.trace)] = Effect("get_next_texture", [result |-> "Err"])
    /\ handler.queue = <<>>

(***************************************************************************)
(* Dirty marking, resize hooks and drops without a drag (C14, C15, C18).   *)
(***************************************************************************)
\* The step is a callback that queues at least one event and does not itself redraw.
QueuesEvents ==
    /\ call'.result = "ok"
    /\ call'.op # "update_layer"
    /\ Places(handler'.trace, "state.queue_event") # {}

\* C14 as stated: every callback that appends an event to the toolkit queue (raw
\* input, the drag file events, the resize events) leaves the view marked as
\* needing display.
C14_QueueingMarksViewDirty == [][QueuesEvents => view'.needs_display]_vars

\* C15 as stated: after any change of the view's bounds, live or not, the swap-chain
\* has the size of the view's bounds once the next redraw has run.
C15_SwapChainMatchesBoundsAtRedraw ==
    [][Redraws => handler'.swap_chain = IcedView_resize_size(view')]_vars

\* C18 as stated: a drag-ended queues FileDropped events only if a drag-entered
\* came before it with no drag-exited and no other drag-ended in between.
C18_DropOnlyForEnteredDrag ==
    [][(Does("dragging_ended") /\ Places(handler'.trace, "state.queue_event") # {})
         => drag.last = "entered"]_vars

(***************************************************************************)
(* The Event Translator on its own.                                        *)
(***************************************************************************)
\* A native event arrives from AppKit; nothing is constructed.
InitTranslate ==
    /\ class_registered = FALSE
    /\ process = "running"
    /\ wrapper = "none"
    /\ view = NoView
    /\ handler = NoHandler
    /\ drag = NoDrag
    /\ \E event \in TranslatorInputs : call = Call("NSEventT", event, "ok")

\* impl From<NSEventT<T>> for Vec<Event>, applied to the native event.
translate ==
    /\ call.op = "NSEventT"
    /\ call' = Call("Events_from",
                    [event |-> call.arg, events |-> Events_from(call.arg, view)], "ok")
    /\ UNCHANGED <<class_registered, process, wrapper, view, handler, drag>>

NextTranslate == translate

SpecTranslate == InitTranslate /\ [][NextTranslate]_vars

\* The native key codes the lookup table has an arm for.
MappedKeyCodes == {NSKeyCodeTable[i][1] : i \in 1..Len(NSKeyCodeTable)}

\* The events are exactly one key-code event of the kind, for the code.
OneKeyEvent(events, kind, code) ==
    /\ Len(events) = 1
    /\ events[1].kind = kind
    /\ \E i \in 1..Len(NSKeyCodeTable) :
          NSKeyCodeTable[i] = <<code, events[1].value.key_code>>

\* C9 as stated: a key-down yields one CharacterReceived per character of its text,
\* in order, then exactly one KeyPressed if its key code is in the lookup table and
\* nothing more if it is not; a key-up yields exactly one KeyReleased if its code is
\* in the table and no event if it is not.
C9_KeyTranslation ==
    call.op = "Events_from" =>
        LET event == call.arg.event
            events == call.arg.events
            typed == Len(event.characters)
        IN  /\ event.eventType = "NSKeyDown" =>
                 /\ Len(events) >= typed
                 /\ \A i \in 1..typed :
                       /\ events[i].kind = "CharacterReceived"
                       /\ events[i].value = event.characters[i]
                 /\ IF event.keyCode \in MappedKeyCodes
                    THEN OneKeyEvent(SubSeq(events, typed + 1, Len(events)),
                                     "KeyPressed", event.keyCode)
                    ELSE Len(events) = typed
            /\ event.eventType = "NSKeyUp" =>
                 IF event.keyCode \in MappedKeyCodes
                 THEN OneKeyEvent(events, "KeyReleased", event.keyCode)
                 ELSE events = <<>>

\* C10 as stated: an other-mouse-down or -up with button index n yields the one
\* button event for Middle if n = 2 and for Other(n), carrying n itself, if not.
C10_OtherButtonCarriesIndex ==
    (call.op = "Events_from"
        /\ call.arg.event.eventType \in {"NSOtherMouseDown", "NSOtherMouseUp"}) =>
        LET n == call.arg.event.buttonNumber
            events == call.arg.events
        IN  /\ Len(events) = 1
            /\ events[1].kind = IF call.arg.event.eventType = "NSOtherMouseDown"
                                THEN "ButtonPressed" ELSE "ButtonReleased"
            /\ events[1].value = IF n = 2 THEN [button |-> "Middle"]
                                 ELSE [button |-> "Other", index |-> n]

====
